---- MODULE Spec2Model ----
(***************************************************************************)
(* LazyStream (src/lazystream/__init__.py): a stream wraps one zero-       *)
(* argument producer `_generator`; every operator either drains it or      *)
(* wraps it in a derived producer.                                         *)
(*                                                                         *)
(* A producer is modelled by the script of the outcomes of its successive  *)
(* invocations: a value, or a raised non-exhaustion error; once the script *)
(* is used up every further invocation raises StopIteration.               *)
(***************************************************************************)
EXTENDS Integers, Sequences, FiniteSets, TLC

\* ---- bounds of the model ------------------------------------------------
MaxLen == 3        \* longest script of the source `self`
MaxOLen == 2       \* longest script of the source `other` (argument of zip)
MaxLimit == 2      \* evaluate limits are 0..MaxLimit, or None
MaxStages == 1     \* longest chain of derived streams
MaxOps == 2        \* pulls (evaluate / __next__) per behaviour
MaxParLen == 3     \* longest source handed to par_evaluate
MaxParLimit == 5   \* largest limit of par_evaluate
MaxWorkers == 2    \* largest pool

\* `limit: Optional[int] = None`
NoLimit == -1

\* ---- outcomes of a call ---------------------------------------------------
Val(v) == [tag |-> "val", v |-> v]
Stop == [tag |-> "stop"]
Err == [tag |-> "err"]

IsVal(o) == o.tag = "val"

\* the counting source base, base+1, ..., base+n-1
Counting(base, n) == [i \in 1..n |-> Val(base + i - 1)]

\* the scripts of at most n invocations: a counting source, or one whose
\* invocation number e raises an error instead of returning its element
Scripts(base, n) ==
    {Counting(base, len) : len \in 0..n}
        \cup UNION {{[Counting(base, len) EXCEPT ![e] = Err] : e \in 1..len} : len \in 1..n}

\* ---- state ----------------------------------------------------------------
VARIABLES
    src,       \* script of the iterator wrapped by the source `self`
    osrc,      \* script of the iterator wrapped by the source `other`
    fbad,      \* the elements on which the user functions raise an error
    initial,   \* the accumulator object the caller hands to reduce
    pos,       \* elements of src consumed so far
    opos,      \* elements of osrc consumed so far
    calls,     \* invocations of the producer of `self`
    ocalls,    \* invocations of the producer of `other`
    sig,       \* the producer of `self` has raised StopIteration
    osig,      \* the producer of `other` has raised StopIteration
    stages,    \* chain of derived streams: stages[k] wraps stream k-1
    submits,   \* executor.submit calls made by par_map producers
    trace,     \* what the last call did, in the order it did it
    last,      \* the last completed call and what it returned
    nops,      \* pulls done so far
    limit,     \* par_evaluate: its limit argument
    nworkers,  \* par_evaluate: threads of the executor
    futures,   \* par_evaluate: the futures list
    pc,        \* par_evaluate: position of the calling thread
    output,    \* par_evaluate: the output list
    ret        \* par_evaluate: what the call returned or raised

vars == <<src, osrc, fbad, initial, pos, opos, calls, ocalls, sig, osig, stages,
          submits, trace, last, nops, limit, nworkers, futures, pc, output, ret>>

seqvars == <<pos, opos, calls, ocalls, sig, osig, stages, submits, trace, last, nops>>
parvars == <<limit, nworkers, futures, pc, output, ret>>

\* stream identifiers: the two sources and the stages of the chain
SelfSrc == 0
OtherSrc == -1

\* the mutable state the producers read and write, threaded through a call
Mem == [pos |-> pos, opos |-> opos, calls |-> calls, ocalls |-> ocalls,
        sig |-> sig, osig |-> osig, stages |-> stages, submits |-> submits,
        trace |-> <<>>]

Res(o, m) == [out |-> o, m |-> m]

\* the call m is in does one more thing: a producer of a source is invoked
\* ("src": it returns v, "end": it raises StopIteration, "fail": it raises an
\* error), the user function of stage k is called on v ("call"), a unit of
\* work for v is handed to the pool ("submit"), or the element v of stream k
\* reaches the caller ("out")
Did(m, e, k, v) == [m EXCEPT !.trace = Append(@, [e |-> e, k |-> k, v |-> v])]

Invoked(m, k, item) ==
    IF IsVal(item) THEN Did(m, "src", k, item.v) ELSE Did(m, "fail", k, 0)

\* ---- user-supplied functions (inputs of the model) ------------------------
func(v) == v + 10                 \* map / par_map:   lambda x: x + 10
predicate(v) == v % 2 = 0         \* filter:          lambda x: x % 2 == 0
enum_func(i, v) == i * 100 + v    \* map_enumerate:   lambda i, x: i * 100 + x
Raises(v) == v \in fbad           \* each of them raises on the elements of fbad

\* the user function of stage k is called on v; `raised` keeps whether it has
\* ever raised
Call(m, k, v) ==
    Did([m EXCEPT !.stages[k].fcalls = @ + 1,
                  !.stages[k].raised = @ \/ Raises(v)], "call", k, v)

\* ---- producers ------------------------------------------------------------
\* from_iterator over the iterator of `self`: lambda: next(iterator)
from_iterator_self(m) ==
    IF m.pos < Len(src)
    THEN Res(src[m.pos + 1],
             Invoked([m EXCEPT !.pos = @ + 1, !.calls = @ + 1], SelfSrc, src[m.pos + 1]))
    ELSE Res(Stop, Did([m EXCEPT !.calls = @ + 1, !.sig = TRUE], "end", SelfSrc, 0))

\* from_iterator over the iterator of `other`
from_iterator_other(m) ==
    IF m.opos < Len(osrc)
    THEN Res(osrc[m.opos + 1],
             Invoked([m EXCEPT !.opos = @ + 1, !.ocalls = @ + 1], OtherSrc, osrc[m.opos + 1]))
    ELSE Res(Stop, Did([m EXCEPT !.ocalls = @ + 1, !.osig = TRUE], "end", OtherSrc, 0))

\* ---- the iteration engine --------------------------------------------------
RECURSIVE generator(_, _)

\* the loop test written `i <= limit`
safe_iter_inclusive(m, k, i, lim) ==
    IF lim = NoLimit \/ i <= lim
    THEN LET r == generator(m, k)
         IN [out |-> IF r.out.tag = "stop" THEN Stop ELSE r.out,
             m |-> r.m, i |-> i + 1]
    ELSE [out |-> Stop, m |-> m, i |-> i]

\* the exhaustion of the producer is not caught: a StopIteration that leaves a
\* generator body reaches the consumer as a RuntimeError
safe_iter_uncaught(m, k, i, lim) ==
    IF lim = NoLimit \/ i < lim
    THEN LET r == generator(m, k)
         IN [out |-> IF r.out.tag = "stop" THEN Err ELSE r.out,
             m |-> r.m, i |-> i + 1]
    ELSE [out |-> Stop, m |-> m, i |-> i]

\* the producer is invoked before the limit is tested, and what it returned is
\* dropped when the limit is reached
safe_iter_eager(m, k, i, lim) ==
    LET r == generator(m, k)
    IN IF lim = NoLimit \/ i < lim
       THEN [out |-> IF r.out.tag = "stop" THEN Stop ELSE r.out,
             m |-> r.m, i |-> i + 1]
       ELSE [out |-> Stop, m |-> r.m, i |-> i]

\* two producer invocations for each element handed on: the second element is
\* fetched ahead and dropped
safe_iter_ahead(m, k, i, lim) ==
    IF lim = NoLimit \/ i < lim
    THEN LET r == generator(m, k)
             a == generator(r.m, k)
         IN [out |-> IF r.out.tag = "stop" THEN Stop ELSE r.out,
             m |-> a.m, i |-> i + 1]
    ELSE [out |-> Stop, m |-> m, i |-> i]

\* One resumption of a __safe_iter(lim) generator over stream k whose loop
\* counter is i: the loop test, then `i += 1; yield self._generator()`.
\* StopIteration from the producer is caught and ends the generator, which its
\* consumer sees as StopIteration; any other error passes through.
safe_iter(m, k, i, lim) ==
    IF lim = NoLimit \/ i < lim
    THEN LET r == generator(m, k)
         IN [out |-> IF r.out.tag = "stop" THEN Stop ELSE r.out,
             m |-> r.m, i |-> i + 1]
    ELSE [out |-> Stop, m |-> m, i |-> i]

\* the exhaustion is answered with a default value, as next(it, default) does
safe_next_default(m, k) ==
    LET r == safe_iter(m, k, 0, NoLimit)
    IN Res(IF r.out.tag = "stop" THEN Val(-1) ELSE r.out, r.m)

\* __safe_next: next(self.__safe_iter()), a fresh unlimited generator pulled once
safe_next(m, k) ==
    LET r == safe_iter(m, k, 0, NoLimit)
    IN Res(r.out, r.m)

\* ---- derived producers ----------------------------------------------------
\* the producer of map hands on what it pulled and leaves func out
map_lambda_bare(m, k) == safe_next(m, k - 1)

\* map: lambda: func(self.__safe_next())
map_lambda(m, k) ==
    LET r == safe_next(m, k - 1)
    IN IF IsVal(r.out)
       THEN IF Raises(r.out.v)
            THEN Res(Err, Call(r.m, k, r.out.v))
            ELSE Res(Val(func(r.out.v)), Call(r.m, k, r.out.v))
       ELSE r

\* par_map: lambda: executor.submit(func, self.__safe_next()).result()
\* the argument is pulled on the calling thread before submit is called; the
\* pool runs func and result() returns its value or raises its error
par_map_lambda(m, k) ==
    LET r == safe_next(m, k - 1)
    IN IF IsVal(r.out)
       THEN LET m2 == Call([r.m EXCEPT !.submits = @ + 1], k, r.out.v)
            IN IF Raises(r.out.v) THEN Res(Err, m2)
               ELSE Res(Val(func(r.out.v)), m2)
       ELSE r

\* the body of filter's generator ends at the first element predicate rejects
filter_iterator_until(m, k) ==
    LET r == safe_iter(m, k - 1, 0, NoLimit)
    IN IF IsVal(r.out)
       THEN LET m2 == Call(r.m, k, r.out.v)
            IN IF predicate(r.out.v)
               THEN Res(r.out, [m2 EXCEPT !.stages[k].gen = "suspended"])
               ELSE Res(Stop, [m2 EXCEPT !.stages[k].gen = "finished"])
       ELSE Res(r.out, [r.m EXCEPT !.stages[k].gen = "finished"])

\* after an error of predicate the generator of filter is left suspended and
\* goes on with the next element when it is resumed
RECURSIVE filter_iterator_resumed(_, _)
filter_iterator_resumed(m, k) ==
    LET r == safe_iter(m, k - 1, 0, NoLimit)
    IN IF IsVal(r.out)
       THEN LET m2 == Call(r.m, k, r.out.v)
            IN IF Raises(r.out.v)
               THEN Res(Err, [m2 EXCEPT !.stages[k].gen = "suspended"])
               ELSE IF predicate(r.out.v)
               THEN Res(r.out, [m2 EXCEPT !.stages[k].gen = "suspended"])
               ELSE filter_iterator_resumed(m2, k)
       ELSE Res(r.out, [r.m EXCEPT !.stages[k].gen = "finished"])

\* filter: the body of its generator `iterator()`, resumed once.  The inner
\* __safe_iter() has no limit, so its counter is never read.  An error that
\* leaves the body, from the source or from predicate, finishes the generator.
RECURSIVE filter_iterator(_, _)
filter_iterator(m, k) ==
    LET r == safe_iter(m, k - 1, 0, NoLimit)
    IN IF IsVal(r.out)
       THEN LET m2 == Call(r.m, k, r.out.v)
            IN IF Raises(r.out.v)
               THEN Res(Err, [m2 EXCEPT !.stages[k].gen = "finished"])
               ELSE IF predicate(r.out.v)
               THEN Res(r.out, [m2 EXCEPT !.stages[k].gen = "suspended"])
               ELSE filter_iterator(m2, k)
       ELSE Res(r.out, [r.m EXCEPT !.stages[k].gen = "finished"])

\* for_each: the body of its generator, resumed once: func(value); yield value
for_each_iterator(m, k) ==
    LET r == safe_iter(m, k - 1, 0, NoLimit)
    IN IF IsVal(r.out)
       THEN LET m2 == Call(r.m, k, r.out.v)
            IN IF Raises(r.out.v)
               THEN Res(Err, [m2 EXCEPT !.stages[k].gen = "finished"])
               ELSE Res(r.out, [m2 EXCEPT !.stages[k].gen = "suspended"])
       ELSE Res(r.out, [r.m EXCEPT !.stages[k].gen = "finished"])

\* the counter starts again at zero in every pull, as it would if enumerate
\* were built inside the producer
map_enumerate_iterator_restart(m, k) ==
    LET r == safe_iter(m, k - 1, 0, NoLimit)
    IN IF IsVal(r.out)
       THEN Res(Val(enum_func(0, r.out.v)),
                [Call(r.m, k, r.out.v) EXCEPT !.stages[k].gen = "suspended"])
       ELSE Res(r.out, [r.m EXCEPT !.stages[k].gen = "finished"])

\* map_enumerate: the body of its generator, resumed once:
\* for i, value in enumerate(self.__safe_iter()): yield func(i, value)
map_enumerate_iterator(m, k) ==
    LET r == safe_iter(m, k - 1, 0, NoLimit)
    IN IF IsVal(r.out)
       THEN LET m2 == Call([r.m EXCEPT !.stages[k].idx = @ + 1], k, r.out.v)
            IN IF Raises(r.out.v)
               THEN Res(Err, [m2 EXCEPT !.stages[k].gen = "finished"])
               ELSE Res(Val(enum_func(m.stages[k].idx, r.out.v)),
                        [m2 EXCEPT !.stages[k].gen = "suspended"])
       ELSE Res(r.out, [r.m EXCEPT !.stages[k].gen = "finished"])

\* from_iterator over a generator object: lambda: next(iterator); a finished
\* generator raises StopIteration without running any code
from_iterator_gen(m, k) ==
    LET s == m.stages[k]
    IN IF s.gen = "finished" THEN Res(Stop, m)
       ELSE CASE s.kind = "filter" -> filter_iterator(m, k)
              [] s.kind = "for_each" -> for_each_iterator(m, k)
              [] s.kind = "map_enumerate" -> map_enumerate_iterator(m, k)

\* the pair built the wrong way round
zip_next_swapped(m, k) ==
    LET s == m.stages[k]
    IN IF s.gen = "finished" THEN Res(Stop, m)
       ELSE LET r1 == safe_iter(m, k - 1, 0, NoLimit)
            IN IF ~IsVal(r1.out)
               THEN Res(r1.out, [r1.m EXCEPT !.stages[k].gen = "finished"])
               ELSE LET m1 == [r1.m EXCEPT !.stages[k].gen = "suspended"]
                    IN IF s.ogen = "finished" THEN Res(Stop, m1)
                       ELSE LET r2 == safe_iter(m1, OtherSrc, 0, NoLimit)
                            IN IF ~IsVal(r2.out)
                               THEN Res(r2.out, [r2.m EXCEPT !.stages[k].ogen = "finished"])
                               ELSE Res(Val(<<r2.out.v, r1.out.v>>),
                                        [r2.m EXCEPT !.stages[k].ogen = "suspended"])

\* other pulled before self
zip_next_other_first(m, k) ==
    LET s == m.stages[k]
    IN IF s.ogen = "finished" THEN Res(Stop, m)
       ELSE LET r2 == safe_iter(m, OtherSrc, 0, NoLimit)
            IN IF ~IsVal(r2.out)
               THEN Res(r2.out, [r2.m EXCEPT !.stages[k].ogen = "finished"])
               ELSE LET m2 == [r2.m EXCEPT !.stages[k].ogen = "suspended"]
                    IN IF s.gen = "finished" THEN Res(Stop, m2)
                       ELSE LET r1 == safe_iter(m2, k - 1, 0, NoLimit)
                            IN IF ~IsVal(r1.out)
                               THEN Res(r1.out, [r1.m EXCEPT !.stages[k].gen = "finished"])
                               ELSE Res(Val(<<r1.out.v, r2.out.v>>),
                                        [r1.m EXCEPT !.stages[k].gen = "suspended"])

\* zip: next() of the builtin zip over self.__safe_iter() and
\* other.__safe_iter(): the first generator is resumed, then the second
zip_next(m, k) ==
    LET s == m.stages[k]
    IN IF s.gen = "finished" THEN Res(Stop, m)
       ELSE LET r1 == safe_iter(m, k - 1, 0, NoLimit)
            IN IF ~IsVal(r1.out)
               THEN Res(r1.out, [r1.m EXCEPT !.stages[k].gen = "finished"])
               ELSE LET m1 == [r1.m EXCEPT !.stages[k].gen = "suspended"]
                    IN IF s.ogen = "finished" THEN Res(Stop, m1)
                       ELSE LET r2 == safe_iter(m1, OtherSrc, 0, NoLimit)
                            IN IF ~IsVal(r2.out)
                               THEN Res(r2.out, [r2.m EXCEPT !.stages[k].ogen = "finished"])
                               ELSE Res(Val(<<r1.out.v, r2.out.v>>),
                                        [r2.m EXCEPT !.stages[k].ogen = "suspended"])

\* self._generator() of stream k
generator(m, k) ==
    IF k = SelfSrc THEN from_iterator_self(m)
    ELSE IF k = OtherSrc THEN from_iterator_other(m)
    ELSE LET kind == m.stages[k].kind
         IN CASE kind = "map" -> map_lambda(m, k)
              [] kind = "par_map" -> par_map_lambda(m, k)
              [] kind = "zip" -> zip_next(m, k)
              [] OTHER -> from_iterator_gen(m, k)

\* evaluate drains the stream to its end and keeps the first lim elements, as
\* list(self.__safe_iter())[:limit] would
RECURSIVE evaluate_loop_trim(_, _, _, _, _)
evaluate_loop_trim(m, k, i, lim, out) ==
    LET r == safe_iter(m, k, i, NoLimit)
    IN IF IsVal(r.out)
       THEN IF lim = NoLimit \/ Len(out) < lim
            THEN evaluate_loop_trim(Did(r.m, "out", k, r.out.v), k, r.i, lim,
                                    Append(out, r.out.v))
            ELSE evaluate_loop_trim(r.m, k, r.i, lim, out)
       ELSE [out |-> r.out, ret |-> out, m |-> r.m]

\* evaluate: for value in self.__safe_iter(limit): output.append(value)
RECURSIVE evaluate_loop(_, _, _, _, _)
evaluate_loop(m, k, i, lim, out) ==
    LET r == safe_iter(m, k, i, lim)
    IN IF IsVal(r.out)
       THEN evaluate_loop(Did(r.m, "out", k, r.out.v), k, r.i, lim,
                          Append(out, r.out.v))
       ELSE [out |-> r.out, ret |-> out, m |-> r.m]

\* ---- sequential operations ---------------------------------------------------
Streams == {OtherSrc, SelfSrc} \cup (1..Len(stages))

\* the new stream is primed: its producer is invoked once when it is built
derive_primed(m, kind) ==
    generator([m EXCEPT !.stages = Append(@, [kind |-> kind, gen |-> "created",
                                               ogen |-> "created", idx |-> 0,
                                               fcalls |-> 0, raised |-> FALSE])],
              Len(m.stages) + 1).m

\* LazyStream.__init__ reached from a composition operator: the new stream only
\* stores its producer; a generator object or a zip object is created unstarted
derive(m, kind) ==
    [m EXCEPT !.stages = Append(@, [kind |-> kind, gen |-> "created",
                                    ogen |-> "created", idx |-> 0, fcalls |-> 0,
                                    raised |-> FALSE])]

\* the composition operators are applied to the newest stream of the chain; the
\* modelled user functions take integers, so nothing is derived from a zip
CanDerive ==
    /\ pc = "idle"
    /\ Len(stages) < MaxStages
    /\ Len(stages) > 0 => stages[Len(stages)].kind # "zip"

Commit(m) ==
    /\ pos' = m.pos
    /\ opos' = m.opos
    /\ calls' = m.calls
    /\ ocalls' = m.ocalls
    /\ sig' = m.sig
    /\ osig' = m.osig
    /\ stages' = m.stages
    /\ submits' = m.submits
    /\ trace' = m.trace

Called(op, k, lim, out, r) ==
    [op |-> op, k |-> k, lim |-> lim, out |-> out, ret |-> r, obj |-> "none",
     pos0 |-> pos, opos0 |-> opos, sig0 |-> sig, osig0 |-> osig]

Compose(kind) ==
    /\ CanDerive
    /\ Commit(derive(Mem, kind))
    /\ last' = Called(kind, Len(stages) + 1, NoLimit, "new", <<>>)
    /\ UNCHANGED <<src, osrc, fbad, initial, nops, parvars>>

map == Compose("map")
map_enumerate == Compose("map_enumerate")
par_map == Compose("par_map")
filter == Compose("filter")
for_each == Compose("for_each")
zip == Compose("zip")

\* evaluate(limit) on stream k
evaluate ==
    /\ pc = "idle"
    /\ nops < MaxOps
    /\ \E k \in Streams, lim \in (0..MaxLimit) \cup {NoLimit} :
         LET r == evaluate_loop(Mem, k, 0, lim, <<>>)
         IN /\ Commit(r.m)
            /\ last' = Called("evaluate", k, lim,
                              IF r.out.tag = "stop" THEN "returned" ELSE "raised",
                              IF r.out.tag = "stop" THEN r.ret ELSE <<>>)
    /\ nops' = nops + 1
    /\ UNCHANGED <<src, osrc, fbad, initial, parvars>>

\* __next__ on stream k: return self.__safe_next()
next ==
    /\ pc = "idle"
    /\ nops < MaxOps
    /\ \E k \in Streams :
         LET r == safe_next(Mem, k)
         IN /\ Commit(IF IsVal(r.out) THEN Did(r.m, "out", k, r.out.v) ELSE r.m)
            /\ last' = Called("next", k, NoLimit,
                              IF IsVal(r.out) THEN "returned" ELSE r.out.tag,
                              IF IsVal(r.out) THEN <<r.out.v>> ELSE <<>>)
    /\ nops' = nops + 1
    /\ UNCHANGED <<src, osrc, fbad, initial, parvars>>

NoCall ==
    [op |-> "none", k |-> 0, lim |-> NoLimit, out |-> "new", ret |-> <<>>,
     obj |-> "none", pos0 |-> 0, opos0 |-> 0, sig0 |-> FALSE, osig0 |-> FALSE]

Fresh ==
    /\ pos = 0 /\ opos = 0 /\ calls = 0 /\ ocalls = 0
    /\ sig = FALSE /\ osig = FALSE
    /\ stages = <<>> /\ submits = 0 /\ trace = <<>>
    /\ last = NoCall /\ nops = 0

Init ==
    /\ src \in {Counting(0, n) : n \in 0..MaxLen}
    /\ osrc \in {Counting(20, n) : n \in 0..MaxOLen}
    /\ fbad = {}
    /\ initial = <<>>
    /\ Fresh
    /\ limit = 0 /\ nworkers = 0 /\ futures = <<>>
    /\ pc = "idle" /\ output = <<>> /\ ret = <<>>

Next ==
    \/ map \/ map_enumerate \/ par_map \/ filter \/ for_each \/ zip
    \/ evaluate \/ next

Spec == Init /\ [][Next]_vars

\* ---- reduce -------------------------------------------------------------------
\* An accumulator is a list object: `id` tells the object the caller holds from
\* a copy of it, `val` is what the list contains.
Accum(id, val) == [id |-> id, val |-> val]

Initials == {<<>>, <<7>>}

\* the accumulator is not copied: the fold works on the caller's object
deepcopy_alias(accum) == accum

\* copy.deepcopy(accum): a new object with equal contents
deepcopy(accum) == Accum("copy", accum.val)

\* func of reduce: lambda acc, x: acc.append(x) or acc, which changes the
\* object it is handed and returns that same object
reduce_func(accum, v) == [accum EXCEPT !.val = Append(@, v)]

\* for value in self.__safe_iter(limit): accum = func(accum, value)
RECURSIVE reduce_loop(_, _, _, _, _)
reduce_loop(m, k, i, lim, accum) ==
    LET r == safe_iter(m, k, i, lim)
    IN IF IsVal(r.out)
       THEN reduce_loop(Did(r.m, "out", k, r.out.v), k, r.i, lim,
                        reduce_func(accum, r.out.v))
       ELSE [out |-> r.out, accum |-> accum, m |-> r.m]

\* reduce(func, initial, limit) on stream k.  What func did to the object it
\* was handed is seen by the caller when that object is the caller's own.
reduce ==
    /\ pc = "idle"
    /\ nops < MaxOps
    /\ \E k \in Streams, lim \in (0..MaxLimit) \cup {NoLimit} :
         LET r == reduce_loop(Mem, k, 0, lim, deepcopy(Accum("initial", initial)))
         IN /\ Commit(r.m)
            /\ initial' = IF r.accum.id = "initial" THEN r.accum.val ELSE initial
            /\ last' = [Called("reduce", k, lim,
                               IF r.out.tag = "stop" THEN "returned" ELSE "raised",
                               IF r.out.tag = "stop" THEN r.accum.val ELSE <<>>)
                          EXCEPT !.obj = r.accum.id]
    /\ nops' = nops + 1
    /\ UNCHANGED <<src, osrc, fbad, parvars>>

InitReduce ==
    /\ src \in {Counting(0, n) : n \in 0..MaxLen}
    /\ osrc \in {Counting(20, n) : n \in 0..MaxOLen}
    /\ fbad = {}
    /\ initial \in Initials
    /\ Fresh
    /\ limit = 0 /\ nworkers = 0 /\ futures = <<>>
    /\ pc = "idle" /\ output = <<>> /\ ret = <<>>

NextReduce ==
    \/ map \/ filter
    \/ reduce \/ next

SpecReduce == InitReduce /\ [][NextReduce]_vars

\* ---- chains of two sequential operators ------------------------------------------
\* the operators whose producers pull one source and call a user function
Sequential == {"map", "map_enumerate", "par_map", "filter", "for_each"}

Blank == [pos |-> 0, opos |-> 0, calls |-> 0, ocalls |-> 0, sig |-> FALSE,
          osig |-> FALSE, stages |-> <<>>, submits |-> 0, trace |-> <<>>]

\* the state after source.a(f).b(g) for two sequential operators a and b
InitChain ==
    /\ src \in {Counting(0, n) : n \in 0..MaxLen}
    /\ osrc = <<>>
    /\ fbad = {}
    /\ initial = <<>>
    /\ pos = 0 /\ opos = 0 /\ calls = 0 /\ ocalls = 0
    /\ sig = FALSE /\ osig = FALSE
    /\ stages \in {derive(derive(Blank, a), b).stages : a, b \in Sequential}
    /\ submits = 0 /\ trace = <<>>
    /\ last = NoCall /\ nops = 0
    /\ limit = 0 /\ nworkers = 0 /\ futures = <<>>
    /\ pc = "idle" /\ output = <<>> /\ ret = <<>>

NextChain == evaluate \/ next

SpecChain == InitChain /\ [][NextChain]_vars

\* ---- user functions that raise ---------------------------------------------------
\* a stream is derived from a source by an operator whose user function raises
\* an error on one element of the source
InitFault ==
    /\ src \in {Counting(0, n) : n \in 1..MaxLen}
    /\ osrc = <<>>
    /\ fbad \in {{v} : v \in 0..(MaxLen - 1)}
    /\ initial = <<>>
    /\ Fresh
    /\ limit = 0 /\ nworkers = 0 /\ futures = <<>>
    /\ pc = "idle" /\ output = <<>> /\ ret = <<>>

NextFault ==
    \/ map \/ map_enumerate \/ filter \/ for_each
    \/ evaluate \/ next

SpecFault == InitFault /\ [][NextFault]_vars

\* ---- par_evaluate ------------------------------------------------------------
\* A future of the executor: queued, then running on a pool thread, then done
\* with the outcome of its call
Queued == [state |-> "queued", res |-> Stop]

Running == {j \in 1..Len(futures) : futures[j].state = "running"}

\* submission stops as soon as some future has found the producer exhausted
submit_until_exhausted(futs, lim) ==
    /\ Len(futs) < lim
    /\ \A j \in 1..Len(futs) : ~(futs[j].state = "done" /\ futs[j].res = Stop)

\* while len(futures) < limit: futures.append(executor.submit(self._generator))
submit_more(futs, lim) == Len(futs) < lim

\* `except StopIteration: continue`, the loop goes on past an exhausted future
collect_continue(out, res) ==
    CASE res.tag = "val" -> [pc |-> "collect", output |-> Append(out, res.v), ret |-> <<>>]
      [] res.tag = "stop" -> [pc |-> "collect", output |-> Append(out, -1), ret |-> <<>>]
      [] OTHER -> [pc |-> "raised", output |-> out, ret |-> <<>>]

\* `except Exception: break`, any error ends the collection like exhaustion
collect_any_error(out, res) ==
    CASE res.tag = "val" -> [pc |-> "collect", output |-> Append(out, res.v), ret |-> <<>>]
      [] OTHER -> [pc |-> "returned", output |-> out, ret |-> out]

\* output.insert(0, future.result())
collect_reversed(out, res) ==
    CASE res.tag = "val" -> [pc |-> "collect", output |-> <<res.v>> \o out, ret |-> <<>>]
      [] res.tag = "stop" -> [pc |-> "returned", output |-> out, ret |-> out]
      [] OTHER -> [pc |-> "raised", output |-> out, ret |-> <<>>]

\* one turn of `for future in futures`, on the future that is awaited next:
\* output.append(future.result()), `except StopIteration: break`, and any other
\* error of the future leaves par_evaluate
collect(out, res) ==
    CASE res.tag = "val" -> [pc |-> "collect", output |-> Append(out, res.v), ret |-> <<>>]
      [] res.tag = "stop" -> [pc |-> "returned", output |-> out, ret |-> out]
      [] OTHER -> [pc |-> "raised", output |-> out, ret |-> <<>>]

\* the calling thread submits one more invocation of the producer
Submit ==
    /\ pc = "submit"
    /\ submit_more(futures, limit)
    /\ futures' = Append(futures, Queued)
    /\ UNCHANGED <<src, osrc, fbad, initial, seqvars, limit, nworkers, pc, output, ret>>

\* the submission loop ends: output = []
SubmitEnd ==
    /\ pc = "submit"
    /\ ~submit_more(futures, limit)
    /\ pc' = "collect"
    /\ output' = <<>>
    /\ UNCHANGED <<src, osrc, fbad, initial, seqvars, limit, nworkers, futures, ret>>

\* a free pool thread takes the oldest queued work item
WorkerTake ==
    /\ Cardinality(Running) < nworkers
    /\ \E j \in 1..Len(futures) :
         /\ futures[j].state = "queued"
         /\ \A h \in 1..(j - 1) : futures[h].state # "queued"
         /\ futures' = [futures EXCEPT ![j].state = "running"]
    /\ UNCHANGED <<src, osrc, fbad, initial, seqvars, limit, nworkers, pc, output, ret>>

\* a pool thread runs its work item, self._generator(), and sets the future
WorkerRun ==
    /\ \E j \in Running :
         LET r == generator(Mem, SelfSrc)
         IN /\ Commit(r.m)
            /\ futures' = [futures EXCEPT ![j] = [state |-> "done", res |-> r.out]]
    /\ UNCHANGED <<src, osrc, fbad, initial, last, nops, limit, nworkers, pc, output, ret>>

\* the calling thread gets the result of the next future, in list order
Await ==
    /\ pc = "collect"
    /\ Len(output) < Len(futures)
    /\ futures[Len(output) + 1].state = "done"
    /\ LET c == collect(output, futures[Len(output) + 1].res)
       IN /\ pc' = c.pc
          /\ output' = c.output
          /\ ret' = c.ret
    /\ UNCHANGED <<src, osrc, fbad, initial, seqvars, limit, nworkers, futures>>

\* the for loop ran to the end of the list: return output
Return ==
    /\ pc = "collect"
    /\ Len(output) = Len(futures)
    /\ pc' = "returned"
    /\ ret' = output
    /\ UNCHANGED <<src, osrc, fbad, initial, seqvars, limit, nworkers, futures, output>>

\* stream.par_evaluate(limit, executor) is called on a fresh source
InitPar ==
    /\ src \in Scripts(0, MaxParLen)
    /\ osrc = <<>>
    /\ fbad = {}
    /\ initial = <<>>
    /\ Fresh
    /\ limit \in 0..MaxParLimit
    /\ nworkers \in 1..MaxWorkers
    /\ futures = <<>>
    /\ pc = "submit" /\ output = <<>> /\ ret = <<>>

NextPar == Submit \/ SubmitEnd \/ WorkerTake \/ WorkerRun \/ Await \/ Return

SpecPar == InitPar /\ [][NextPar]_vars

\* ---- a par_map stream pulled step by step -------------------------------------
\* The producer of par_map is executor.submit(func, self.__safe_next()).result():
\* the calling thread pulls the argument and submits the work item, a pool
\* thread runs it, and the calling thread comes back from result().
Unit(a) == [state |-> "queued", res |-> Stop, arg |-> a]

InFlight == {j \in 1..Len(futures) : futures[j].state # "done"}

\* result() comes back at once, whatever the state of the future
awaited_at_once(fut) == TRUE

\* future.result() blocks until the pool has set the future
awaited(fut) == fut.state = "done"

\* __next__ is called on the stream: self.__safe_next() on the calling thread,
\* then executor.submit(func, a); the exhaustion of the source leaves the
\* producer before submit is reached
PmPull ==
    /\ pc = "pull"
    /\ nops < limit
    /\ LET r == safe_next(Mem, SelfSrc)
       IN IF IsVal(r.out)
          THEN /\ Commit(Did([r.m EXCEPT !.submits = @ + 1], "submit", 1, r.out.v))
               /\ futures' = Append(futures, Unit(r.out.v))
               /\ pc' = "await"
          ELSE /\ Commit(r.m)
               /\ UNCHANGED <<futures, pc>>
    /\ nops' = nops + 1
    /\ UNCHANGED <<src, osrc, fbad, initial, last, limit, nworkers, output, ret>>

\* a pool thread runs its work item, func(a), and sets the future
PmWorkerRun ==
    /\ \E j \in Running :
         LET a == futures[j].arg
         IN /\ Commit(Call([Mem EXCEPT !.trace = trace], 1, a))
            /\ futures' = [futures EXCEPT
                             ![j] = [state |-> "done", arg |-> a,
                                     res |-> IF Raises(a) THEN Err ELSE Val(func(a))]]
    /\ UNCHANGED <<src, osrc, fbad, initial, last, nops, limit, nworkers, pc, output, ret>>

\* result() of the newest future: its value is what the pull returns, its
\* error is what the pull raises
PmResult ==
    /\ pc = "await"
    /\ awaited(futures[Len(futures)])
    /\ LET res == futures[Len(futures)].res
       IN output' = IF IsVal(res) THEN Append(output, res.v) ELSE output
    /\ pc' = "pull"
    /\ UNCHANGED <<src, osrc, fbad, initial, seqvars, limit, nworkers, futures, ret>>

\* source.par_map(func, executor) is built and __next__ is called on it `limit`
\* times by one thread
InitParMap ==
    /\ src \in {Counting(0, n) : n \in 0..MaxParLen}
    /\ osrc = <<>>
    /\ fbad \in {{}, {1}}
    /\ initial = <<>>
    /\ pos = 0 /\ opos = 0 /\ calls = 0 /\ ocalls = 0
    /\ sig = FALSE /\ osig = FALSE
    /\ stages = derive(Blank, "par_map").stages
    /\ submits = 0 /\ trace = <<>>
    /\ last = NoCall /\ nops = 0
    /\ limit \in 0..MaxParLimit
    /\ nworkers \in 1..MaxWorkers
    /\ futures = <<>>
    /\ pc = "pull" /\ output = <<>> /\ ret = <<>>

NextParMap == PmPull \/ WorkerTake \/ PmWorkerRun \/ PmResult

SpecParMap == InitParMap /\ [][NextParMap]_vars

\* ---- properties: sequential evaluation --------------------------------------
Min(a, b) == IF a < b THEN a ELSE b

\* every invocation of the script returns an element
FaultFree(s) == \A i \in 1..Len(s) : IsVal(s[i])

\* the elements a drain with limit lim takes from n remaining ones
Taken(lim, n) == IF lim = NoLimit THEN n ELSE Min(lim, n)

Pulled == last.op \in {"evaluate", "next"}

EvaluatedSelf ==
    /\ last.op = "evaluate"
    /\ last.k = SelfSrc
    /\ FaultFree(src)

\* C1: evaluate(L) on a source with N elements left returns exactly the first
\* min(L, N) of them, in source order (all N without a limit).
C1_EvaluatePrefix ==
    EvaluatedSelf =>
        /\ last.out = "returned"
        /\ last.ret = [i \in 1..Taken(last.lim, Len(src) - last.pos0)
                          |-> src[last.pos0 + i].v]

C1_Witness ==
    /\ EvaluatedSelf
    /\ last.pos0 = 0
    /\ Len(src) = 3
    /\ last.lim = 2
    /\ last.ret = <<0, 1>>

\* C10 as stated: after evaluate(L) on a fresh source of N > L elements, L
\* elements are left un-pulled.
C10_LeftIsLimit ==
    (EvaluatedSelf /\ last.pos0 = 0 /\ last.lim # NoLimit /\ last.lim < Len(src))
        => Len(src) - pos = last.lim

\* C10 amended: after evaluate(L) on a source of N > L elements, N - L elements
\* are left un-pulled: exactly L have been consumed.
C10_LeftIsRest ==
    (EvaluatedSelf /\ last.lim # NoLimit /\ last.lim < Len(src) - last.pos0)
        => /\ pos = last.pos0 + last.lim
           /\ Len(src) - pos = (Len(src) - last.pos0) - last.lim

C10_Witness ==
    /\ EvaluatedSelf
    /\ last.pos0 = 0
    /\ Len(src) = 3
    /\ last.lim = 1
    /\ Len(src) - pos = 2

\* ---- properties: zip ----------------------------------------------------------
\* the last call pulled self.zip(other), built directly on the two sources
ZipPulled ==
    /\ Pulled
    /\ last.k = 1
    /\ stages[1].kind = "zip"
    /\ FaultFree(src)
    /\ FaultFree(osrc)

\* C6: self.zip(other).evaluate() on sources with N and M elements left has
\* length min(N, M) and its i-th element is the pair (self[i], other[i]).
C6_ZipPairs ==
    (ZipPulled /\ last.op = "evaluate" /\ last.lim = NoLimit) =>
        /\ last.out = "returned"
        /\ last.ret = [i \in 1..Min(Len(src) - last.pos0, Len(osrc) - last.opos0)
                          |-> <<src[last.pos0 + i].v, osrc[last.opos0 + i].v>>]

C6_Witness ==
    /\ ZipPulled
    /\ last.op = "evaluate"
    /\ last.lim = NoLimit
    /\ last.pos0 = 0 /\ last.opos0 = 0
    /\ Len(src) = 3 /\ Len(osrc) = 2
    /\ last.ret = <<<<0, 20>>, <<1, 21>>>>

\* C7 as stated: after any pulls of the zipped sequence, the pull that finds a
\* side exhausted included, as many elements have been consumed from self as
\* from other.
C7_EqualConsumption ==
    ZipPulled => pos - last.pos0 = opos - last.opos0

\* the call went on pulling until a pull of the zipped sequence was exhausted
ZipRanOut ==
    IF last.op = "next" THEN last.out = "stop"
    ELSE last.lim = NoLimit \/ Len(last.ret) < last.lim

\* C7 amended: zip pulls self before other.  A pull that yields a pair consumes
\* one element of each source; a pull that finds self exhausted consumes
\* nothing; a pull that finds other exhausted while self still has an element
\* consumes that element of self and drops it.  So a call that yields n pairs
\* consumes n elements of other and n of self, or n + 1 of self when it ran
\* into the end of other with self not exhausted.
C7_ZipSelfFirst ==
    ZipPulled =>
        LET n == Len(last.ret)
        IN /\ opos - last.opos0 = n
           /\ pos - last.pos0 =
                  IF ZipRanOut /\ last.pos0 + n < Len(src) THEN n + 1 ELSE n

C7_Witness ==
    /\ ZipPulled
    /\ last.op = "next"
    /\ last.out = "stop"
    /\ last.opos0 = Len(osrc)
    /\ opos = last.opos0
    /\ pos = last.pos0 + 1

\* ---- properties: exhaustion and laziness ----------------------------------------
\* a pull that only reports exhaustion: __next__ raises StopIteration, evaluate
\* returns the empty list
NothingLeft ==
    /\ last.ret = <<>>
    /\ last.out = IF last.op = "next" THEN "stop" ELSE "returned"

\* C8: once the producer of a source has raised StopIteration, every later pull
\* of a stream derived from it (map, map_enumerate, filter, for_each, par_map,
\* zip) signals exhaustion and yields no element; for zip this holds for the
\* exhaustion of either of its two sources.
C8_ExhaustionSticks ==
    /\ (Pulled /\ last.k >= 1 /\ last.sig0) => NothingLeft
    /\ (Pulled /\ last.k >= 1 /\ last.osig0 /\ FaultFree(src)
          /\ \E j \in 1..last.k : stages[j].kind = "zip") => NothingLeft

C8_Witness ==
    /\ last.op = "next"
    /\ last.k = 1
    /\ stages[1].kind = "map"
    /\ Len(src) = 3
    /\ last.sig0
    /\ last.out = "stop"

\* C9: a composition operator (map, map_enumerate, filter, for_each, par_map,
\* zip) invokes neither a producer nor a user function and submits nothing: the
\* new stream starts unstarted and the others are untouched; producers and
\* user functions run only in a step that pulls (evaluate or __next__).
C9_ComposeIsLazy ==
    [][/\ Len(stages') > Len(stages) =>
            /\ calls' = calls /\ ocalls' = ocalls
            /\ pos' = pos /\ opos' = opos
            /\ submits' = submits
            /\ SubSeq(stages', 1, Len(stages)) = stages
            /\ stages'[Len(stages')].fcalls = 0
            /\ stages'[Len(stages')].idx = 0
            /\ stages'[Len(stages')].gen = "created"
            /\ stages'[Len(stages')].ogen = "created"
       /\ (\/ calls' # calls \/ ocalls' # ocalls \/ submits' # submits
           \/ \E k \in 1..Len(stages) : stages'[k].fcalls # stages[k].fcalls)
            => last'.op \in {"evaluate", "next"}]_vars

C9_Witness ==
    /\ Len(stages) = 1
    /\ last.op = stages[1].kind
    /\ last.op = "filter"
    /\ Len(src) = 3
    /\ calls = 0 /\ ocalls = 0 /\ submits = 0
    /\ stages[1].fcalls = 0

\* ---- properties: par_evaluate ---------------------------------------------------
Done(j) == futures[j].state = "done"

\* par_evaluate(limit=5, pool) on the producer that yields 0, 1, 2
ThreeOfFive ==
    /\ src = Counting(0, 3)
    /\ limit = 5
    /\ pc = "returned"

\* C2 as stated: the call returns [0, 1, 2] whatever the interleaving of the
\* five invocations on the workers of the pool.
C2_AlwaysInOrder ==
    ThreeOfFive => ret = <<0, 1, 2>>

\* C2 amended: the call returns [0, 1, 2] when the pool runs the invocations
\* one at a time in submission order (a pool of one worker).  On a pool with
\* more workers an invocation submitted later can take an element, or find
\* the source exhausted, before one submitted earlier, so the call returns
\* distinct elements of {0, 1, 2}, at most three, possibly out of order or
\* none.
C2_InOrderOnOneWorker ==
    ThreeOfFive =>
        /\ nworkers = 1 => ret = <<0, 1, 2>>
        /\ Len(ret) <= 3
        /\ \A i \in 1..Len(ret) : ret[i] \in 0..2
        /\ \A i, j \in 1..Len(ret) : ret[i] = ret[j] => i = j

C2_Witness ==
    /\ ThreeOfFive
    /\ nworkers = 1
    /\ ret = <<0, 1, 2>>
    /\ \A j \in 1..5 : Done(j)

\* C3: the futures are awaited in submission order: the list returned holds the
\* values of the futures submitted before the first one whose result is
\* StopIteration, in submission order (of all of them if there is none); what
\* the futures submitted after that one returned is discarded.
C3_SubmissionOrderPrefix ==
    pc = "returned" =>
        /\ Len(ret) <= Len(futures)
        /\ \A j \in 1..Len(ret) :
              /\ Done(j)
              /\ futures[j].res = Val(ret[j])
        /\ Len(ret) < Len(futures) =>
              /\ Done(Len(ret) + 1)
              /\ futures[Len(ret) + 1].res = Stop

\* the second future found the source exhausted after the third, submitted
\* later, had completed with the element 1, which is discarded
C3_Witness ==
    /\ pc = "returned"
    /\ ret = <<0>>
    /\ Len(futures) >= 3
    /\ Done(2) /\ futures[2].res = Stop
    /\ Done(3) /\ futures[3].res = Val(1)

\* C4: exactly `limit` invocations are submitted, all of them before the first
\* future is awaited, also when the producer has fewer than `limit` elements.
C4_AllSubmittedUpFront ==
    /\ Len(futures) <= limit
    /\ pc # "submit" => Len(futures) = limit
    /\ Len(output) > 0 => Len(futures) = limit

C4_Witness ==
    /\ pc = "returned"
    /\ limit = 5
    /\ Len(futures) = 5
    /\ Len(src) = 2
    /\ FaultFree(src)
    /\ Len(ret) < limit

\* the future awaited next has raised an error other than StopIteration
AwaitedFailed ==
    /\ Len(output) < Len(futures)
    /\ Done(Len(output) + 1)
    /\ futures[Len(output) + 1].res = Err

\* C5: when the future awaited raises an error other than StopIteration, the
\* error leaves par_evaluate: the call returns no list, and the values already
\* collected are lost with it.
C5_ErrorPropagates ==
    /\ AwaitedFailed => pc # "returned"
    /\ pc = "raised" => (AwaitedFailed /\ ret = <<>>)

C5_Witness ==
    /\ pc = "raised"
    /\ AwaitedFailed
    /\ Len(output) = 2
    /\ ret = <<>>

\* ---- evaluate(0) ----------------------------------------------------------------
\* C11: evaluate(0) returns an empty collection and invokes no producer, on a
\* source and on a derived stream alike: no source moves, no generator of a
\* derived stream is started, no user function is called, nothing is submitted.
C11_EvaluateZeroIsInert ==
    [][(nops' # nops /\ last'.op = "evaluate" /\ last'.lim = 0) =>
          /\ last'.out = "returned"
          /\ last'.ret = <<>>
          /\ trace' = <<>>
          /\ UNCHANGED <<pos, opos, calls, ocalls, sig, osig, stages, submits>>]_vars

C11_Witness ==
    /\ last.op = "evaluate"
    /\ last.lim = 0
    /\ last.k = 1
    /\ stages[1].kind = "filter"
    /\ stages[1].gen = "created"
    /\ Len(src) = 3
    /\ calls = 0
    /\ last.ret = <<>>

\* ---- the single pull --------------------------------------------------------------
\* what __next__ does on a source with script s that stood at p0 and stands at p
NextOnSource(s, p0, p) ==
    IF p0 < Len(s)
    THEN /\ last.out = "returned"
         /\ last.ret = <<s[p0 + 1].v>>
         /\ p = p0 + 1
    ELSE /\ last.out = "stop"
         /\ last.ret = <<>>
         /\ p = p0

OneToOne == {"map", "par_map", "for_each", "map_enumerate"}

\* C12: __next__ on a stream with an element left consumes exactly that one
\* element and returns it; on an exhausted stream it raises StopIteration and
\* returns nothing, never a default value.  On a source the element is the
\* next one of its script; a stream derived by map, par_map, for_each or
\* map_enumerate takes exactly one element from its source per pull.
C12_NextTakesOneOrStops ==
    last.op = "next" =>
        /\ last.out \in {"returned", "stop"}
        /\ last.out = "returned" => Len(last.ret) = 1
        /\ last.out = "stop" => last.ret = <<>>
        /\ last.k = SelfSrc => NextOnSource(src, last.pos0, pos) /\ opos = last.opos0
        /\ last.k = OtherSrc => NextOnSource(osrc, last.opos0, opos) /\ pos = last.pos0
        /\ (last.k = 1 /\ stages[1].kind \in OneToOne) =>
              /\ last.out = (IF last.pos0 < Len(src) THEN "returned" ELSE "stop")
              /\ pos = (IF last.pos0 < Len(src) THEN last.pos0 + 1 ELSE last.pos0)

C12_Witness ==
    /\ last.op = "next"
    /\ last.k = SelfSrc
    /\ Len(src) = 1
    /\ last.pos0 = 1
    /\ calls = 3
    /\ last.out = "stop"
    /\ last.ret = <<>>

\* the elements a source with script s has left after the first p0
Rest(s, p0) == [i \in 1..(Len(s) - p0) |-> s[p0 + i].v]

Drained(kind) ==
    /\ last.op = "evaluate"
    /\ last.lim = NoLimit
    /\ last.k = 1
    /\ stages[1].kind = kind

\* ---- map --------------------------------------------------------------------------
\* C13: source.map(f).evaluate() is f applied to each element that
\* source.evaluate() would return, in the same order and of the same length.
C13_MapIsElementwise ==
    Drained("map") =>
        /\ last.out = "returned"
        /\ Len(last.ret) = Len(Rest(src, last.pos0))
        /\ \A i \in 1..Len(last.ret) : last.ret[i] = func(Rest(src, last.pos0)[i])

C13_Witness ==
    /\ Drained("map")
    /\ src = <<Val(0), Val(1), Val(2)>>
    /\ last.pos0 = 0
    /\ last.ret = <<10, 11, 12>>

\* ---- filter -----------------------------------------------------------------------
\* C14: source.filter(p).evaluate() is the subsequence of the source's elements
\* that satisfy p, in source order; a single pull of the filtered stream
\* returns the next element that satisfies p, and signals exhaustion, with the
\* source run to its end, when no element left satisfies p.
C14_FilterKeepsMatches ==
    /\ Drained("filter") =>
          /\ last.out = "returned"
          /\ last.ret = SelectSeq(Rest(src, last.pos0), predicate)
    /\ (last.op = "next" /\ last.k = 1 /\ stages[1].kind = "filter") =>
          IF \E i \in 1..Len(Rest(src, last.pos0)) : predicate(Rest(src, last.pos0)[i])
          THEN /\ last.out = "returned"
               /\ last.ret = <<Head(SelectSeq(Rest(src, last.pos0), predicate))>>
               /\ src[pos].v = last.ret[1]
          ELSE /\ last.out = "stop"
               /\ pos = Len(src)

C14_Witness ==
    /\ Drained("filter")
    /\ src = <<Val(0), Val(1), Val(2)>>
    /\ last.pos0 = 0
    /\ last.ret = <<0, 2>>

C14_WitnessStop ==
    /\ last.op = "next"
    /\ last.k = 1
    /\ stages[1].kind = "filter"
    /\ src = <<Val(0), Val(1)>>
    /\ last.pos0 = 1
    /\ ~last.sig0
    /\ last.out = "stop"

\* ---- map_enumerate ----------------------------------------------------------------
\* C15: the counter of map_enumerate is zero when the stream is built and
\* advances by exactly one per element it yields, whether the elements are
\* taken by one drain, by separate pulls or by separate evaluate(limit) calls:
\* a call that finds the counter at c and the source at p returns
\* f(c, s_p+1), f(c + 1, s_p+2), ... and leaves the counter at c plus the
\* number of elements it returned.
C15_CounterInPullOrder ==
    [][/\ (nops' # nops /\ last'.op = "map_enumerate") =>
              stages'[last'.k].idx = 0
       /\ (nops' # nops /\ last'.op \in {"evaluate", "next"} /\ last'.k = 1
             /\ stages'[1].kind = "map_enumerate") =>
              /\ stages'[1].idx = stages[1].idx + Len(last'.ret)
              /\ pos' = pos + Len(last'.ret)
              /\ \A j \in 1..Len(last'.ret) :
                    last'.ret[j] = enum_func(stages[1].idx + j - 1, src[pos + j].v)]_vars

C15_Witness ==
    /\ last.op = "next"
    /\ last.k = 1
    /\ stages[1].kind = "map_enumerate"
    /\ last.pos0 = 1
    /\ stages[1].idx = 2
    /\ last.ret = <<101>>

\* ---- producer invocations of a drain --------------------------------------------
IsInvocation(ev) == ev.e \in {"src", "end", "fail"}

\* the invocations of the producer of source k in the last call
Invocations(k) ==
    Len(SelectSeq(trace, LAMBDA ev : IsInvocation(ev) /\ ev.k = k))

\* C19: evaluate(L) on a source with N elements left invokes its producer
\* exactly min(L, N + 1) times, N + 1 times without a limit, the last of
\* these being the invocation that raises StopIteration; every element it
\* takes is returned, so with L < N exactly N - L elements are left, and they
\* are what the next drain of the source starts with.
C19_ProducerInvocations ==
    (last.op = "evaluate" /\ last.k = SelfSrc) =>
        LET N == Len(src) - last.pos0
        IN /\ Invocations(SelfSrc) =
                 (IF last.lim = NoLimit THEN N + 1 ELSE Min(last.lim, N + 1))
           /\ calls >= Invocations(SelfSrc)
           /\ last.lim = NoLimit => trace[Len(trace)].e = "end"
           /\ pos = last.pos0 + Len(last.ret)
           /\ Len(src) - pos = N - Taken(last.lim, N)
           /\ last.ret = [i \in 1..Len(last.ret) |-> src[last.pos0 + i].v]

C19_Witness ==
    /\ last.op = "evaluate"
    /\ last.k = SelfSrc
    /\ last.lim = NoLimit
    /\ Len(src) = 3
    /\ last.pos0 = 1
    /\ ~last.sig0
    /\ last.ret = <<1, 2>>
    /\ calls = 4

\* ---- reduce folds a copy ----------------------------------------------------------
ReducedSelf ==
    /\ last.op = "reduce"
    /\ last.k = SelfSrc

\* C16: reduce(f, initial, limit) on a source with N elements left returns
\* f(...f(f(initial, s_0), s_1)..., s_k-1) for the first k = min(limit, N)
\* of them (k = N without a limit), folded from the left; the fold works on a
\* copy, so the object it returns is not the caller's and no call changes
\* what the caller's initial contains, although f changes its argument in place.
C16_ReduceFoldsACopy ==
    /\ [](ReducedSelf =>
            /\ last.out = "returned"
            /\ last.ret = initial \o [i \in 1..Taken(last.lim, Len(src) - last.pos0)
                                        |-> src[last.pos0 + i].v]
            /\ last.obj = "copy")
    /\ [](initial \in Initials)
    /\ [][initial' = initial]_vars

C16_Witness ==
    /\ ReducedSelf
    /\ Len(src) = 3
    /\ last.pos0 = 0
    /\ last.lim = 2
    /\ initial = <<7>>
    /\ last.ret = <<7, 0, 1>>

\* ---- one element at a time ----------------------------------------------------------
\* stage j turns away the element v it was called on
Rejects(j, v) == stages[j].kind = "filter" /\ ~predicate(v)

\* ev is what stage j hands on for the element v it was called on: for_each
\* and filter hand on v itself, map and par_map hand on func(v)
HandsOn(j, v, ev) ==
    CASE stages[j].kind \in {"for_each", "filter"} -> ev.v = v
      [] stages[j].kind \in {"map", "par_map"} -> ev.v = func(v)
      [] OTHER -> TRUE

\* the event that follows trace[p] is event e of stream k
Then(p, e, k) ==
    /\ p < Len(trace)
    /\ trace[p + 1].e = e
    /\ trace[p + 1].k = k

\* nothing follows trace[p] in the call but a further invocation of the source
ThenNextElement(p) == p = Len(trace) \/ IsInvocation(trace[p + 1])

\* C17: a pull or drain of stream k of a chain of sequential operators works on
\* one element at a time.  The element the source returns is passed to the user
\* function of stage 1, what stage 1 hands on to the user function of stage 2,
\* and so on up to stage k, each function being called exactly once on it; it
\* is then delivered to the caller, unless a filter turned it away.  Only then
\* is the producer of the source invoked again.  for_each hands on the element
\* it was given.
C17_OneElementAtATime ==
    (Pulled /\ last.k >= SelfSrc) =>
        \A p \in 1..Len(trace) :
            LET ev == trace[p]
            IN /\ ev.e = "src" =>
                     IF last.k = SelfSrc
                     THEN Then(p, "out", SelfSrc) /\ trace[p + 1].v = ev.v
                     ELSE Then(p, "call", 1) /\ trace[p + 1].v = ev.v
               /\ ev.e = "call" =>
                     IF Rejects(ev.k, ev.v)
                     THEN ThenNextElement(p)
                     ELSE /\ Then(p, IF ev.k < last.k THEN "call" ELSE "out",
                                  IF ev.k < last.k THEN ev.k + 1 ELSE last.k)
                          /\ HandsOn(ev.k, ev.v, trace[p + 1])
               /\ ev.e = "out" => ThenNextElement(p)
               /\ ev.e = "end" => p = Len(trace)
               /\ (IsInvocation(ev) /\ p > 1) =>
                     \/ trace[p - 1].e = "out"
                     \/ trace[p - 1].e = "call" /\ Rejects(trace[p - 1].k, trace[p - 1].v)

C17_Witness ==
    /\ last.op = "evaluate"
    /\ last.k = 2
    /\ stages[1].kind = "map"
    /\ stages[2].kind = "for_each"
    /\ Len(src) = 2
    /\ last.pos0 = 0
    /\ last.ret = <<10, 11>>
    /\ trace = << [e |-> "src", k |-> 0, v |-> 0], [e |-> "call", k |-> 1, v |-> 0],
                  [e |-> "call", k |-> 2, v |-> 10], [e |-> "out", k |-> 2, v |-> 10],
                  [e |-> "src", k |-> 0, v |-> 1], [e |-> "call", k |-> 1, v |-> 1],
                  [e |-> "call", k |-> 2, v |-> 11], [e |-> "out", k |-> 2, v |-> 11],
                  [e |-> "end", k |-> 0, v |-> 0] >>

\* ---- one unit of work per pull ----------------------------------------------------
\* the elements whose pulls have come back
Settled == [j \in 1..(IF pc = "await" THEN Len(futures) - 1 ELSE Len(futures))
              |-> src[j].v]

\* C18: a pull of a par_map stream invokes the producer of the source once, on
\* the calling thread; when it returns an element a the pull submits exactly
\* one unit of work, f(a), and comes back only when that unit is done, with
\* f(a); when the source is exhausted the pull signals exhaustion and submits
\* nothing.  So the units are the elements pulled, in order, and at most one,
\* the newest, is not done.
C18_OneUnitPerPull ==
    /\ Cardinality(InFlight) <= 1
    /\ InFlight # {} => (pc = "await" /\ InFlight = {Len(futures)})
    /\ calls = nops
    /\ submits = Len(futures)
    /\ Len(futures) = pos
    /\ \A j \in 1..Len(futures) : futures[j].arg = src[j].v
    /\ stages[1].fcalls = Len(futures) - Cardinality(InFlight)
    /\ output = [j \in 1..Len(SelectSeq(Settled, LAMBDA v : ~Raises(v)))
                   |-> func(SelectSeq(Settled, LAMBDA v : ~Raises(v))[j])]

C18_Witness ==
    /\ pc = "await"
    /\ Len(src) = 3
    /\ pos = 2
    /\ Len(futures) = 2
    /\ futures[1].state = "done"
    /\ futures[2].state = "running"
    /\ futures[2].arg = 1
    /\ output = <<10>>

C18_WitnessExhausted ==
    /\ pc = "pull"
    /\ Len(src) = 2
    /\ sig
    /\ calls = 4
    /\ submits = 2
    /\ output = <<10, 11>>

\* ---- errors of the user functions -------------------------------------------------
Generators == {"filter", "for_each", "map_enumerate"}

\* the user function raised in the last call
RaisedNow == \E p \in 1..Len(trace) : trace[p].e = "call" /\ Raises(trace[p].v)

\* the step is a pull or a drain, with a limit other than 0, of stage 1
PullsFirst ==
    /\ nops' # nops
    /\ last'.op \in {"evaluate", "next"}
    /\ last'.lim # 0
    /\ last'.k = 1

\* C20: an error raised by the user function of a derived stream reaches the
\* caller of the pull, which ends with that call.  Once the user function of a
\* stream derived by filter, for_each or map_enumerate has raised, every later
\* pull of that stream signals exhaustion, invokes no producer and calls no
\* function, whatever the source has left.  A stream derived by map invokes
\* the producer of its source again on the next pull and returns func of the
\* element it gets.
C20_GeneratorDiesMapResumes ==
    /\ []((Pulled /\ last.k = 1 /\ RaisedNow) =>
             /\ last.out \in {"err", "raised"}
             /\ last.ret = <<>>
             /\ trace[Len(trace)].e = "call"
             /\ Raises(trace[Len(trace)].v)
             /\ stages[1].raised)
    /\ [][(PullsFirst /\ stages[1].raised /\ stages[1].kind \in Generators) =>
             /\ last'.ret = <<>>
             /\ last'.out = (IF last'.op = "next" THEN "stop" ELSE "returned")
             /\ trace' = <<>>
             /\ UNCHANGED <<pos, calls, sig, stages>>]_vars
    /\ [][(PullsFirst /\ stages[1].raised /\ stages[1].kind = "map"
             /\ last'.op = "next" /\ pos < Len(src)) =>
             /\ calls' = calls + 1
             /\ pos' = pos + 1
             /\ last'.ret = <<func(src[pos'].v)>> \/ Raises(src[pos'].v)]_vars

C20_Witness ==
    /\ last.op = "next"
    /\ last.k = 1
    /\ stages[1].kind = "for_each"
    /\ stages[1].raised
    /\ fbad = {0}
    /\ Len(src) = 3
    /\ pos = 1
    /\ calls = 1
    /\ trace = <<>>
    /\ last.out = "stop"

C20_WitnessMap ==
    /\ last.op = "next"
    /\ last.k = 1
    /\ stages[1].kind = "map"
    /\ stages[1].raised
    /\ fbad = {0}
    /\ last.pos0 = 1
    /\ last.ret = <<11>>

====
